---- MODULE Spec2Model ----
(***************************************************************************)
(* A model of GERAR_POLIGONO.py: a Streamlit script that reads the Point   *)
(* placemarks of a KML document, buffers each into a square, unions the    *)
(* squares with shapely's unary_union and writes the result as a new KML.  *)
(*                                                                         *)
(* Geometry is modelled on an integer grid.  One grid unit is the angle    *)
(* that the smallest slider radius (10 m) spans, 10/111000 degree, so the  *)
(* offsets the code computes are whole numbers of units.  A polygon is the *)
(* set of unit cells its exterior ring encloses plus the set of cells of   *)
(* its interior rings (holes).  All grid points lie within a few units of  *)
(* each other, where cos(radians(lat)) does not change at grid resolution. *)
(***************************************************************************)
EXTENDS Integers, Sequences, FiniteSets, TLC

VARIABLES
    uploaded_file,   \* the st.file_uploader widget: None or a document
    raio,            \* the radius slider
    session_state,   \* st.session_state: a function from the keys set so far
    tmp_files,       \* temporary files that exist on disk
    run,             \* number of processing runs started (history variable)
    last,            \* what the last script run did (history variable)
    pc,              \* position of the function harness
    args,            \* inputs of the function under check
    ret              \* its results

vars == <<uploaded_file, raio, session_state, tmp_files, run, last, pc, args, ret>>

pipeline_vars == <<uploaded_file, raio, session_state, tmp_files, run, last>>
harness_vars == <<pc, args, ret>>

----------------------------------------------------------------------------
\* Bounds of the model.

GridMax == 4          \* latitudes and longitudes of points are 1..GridMax
MaxPoints == 4        \* points in a list handed to the geometry functions
MaxRaioUnits == 2     \* slider radii are RaioMin * (1..MaxRaioUnits)
Big == 1000           \* a coordinate so large that adding an offset is absorbed
MaxRuns == 2          \* clicks on the process button
MaxPlacemarks == 2    \* Placemark elements in a document handed to parse_kml

\* Program constants.
MetersPerDegree == 111000
RaioMin == 10
RaioMax == 150

None == "<None>"

----------------------------------------------------------------------------
\* Floating point, as far as the code depends on it.

\* a + b in floating point: b is lost when a is too large for its precision
FAdd(a, b) == IF a >= Big THEN a ELSE a + b

FSub(a, b) == IF a >= Big THEN a ELSE a - b

\* grid units per degree: RaioMin metres span one unit
UnitsPerDegree == MetersPerDegree \div RaioMin

\* cos(radians(lat)) over the grid
CosLat(lat) == 1

SetMin(S) == CHOOSE x \in S : \A y \in S : x <= y

SetMax(S) == CHOOSE x \in S : \A y \in S : x >= y

----------------------------------------------------------------------------
\* shapely: Polygon, unary_union.

\* Polygon(shell): the polygon of a rectangular ring of (lat, lon) vertices
Polygon(vertices) ==
    LET lats == {vertices[i][1] : i \in DOMAIN vertices}
        lons == {vertices[i][2] : i \in DOMAIN vertices}
    IN  [geom_type |-> "Polygon",
         exterior  |-> (SetMin(lats) .. SetMax(lats) - 1) \X (SetMin(lons) .. SetMax(lons) - 1),
         interiors |-> {}]

\* the points of a polygon: inside the exterior ring and in no hole
Region(p) == p.exterior \ p.interiors

\* a ring that encloses no area
IsDegenerate(p) == p.exterior = {}

\* two unit cells share an edge
Adjacent(c, d) ==
    \/ c[1] = d[1] /\ (c[2] = d[2] + 1 \/ d[2] = c[2] + 1)
    \/ c[2] = d[2] /\ (c[1] = d[1] + 1 \/ d[1] = c[1] + 1)

RECURSIVE Reach(_, _, _)
Reach(frontier, seen, S) ==
    LET new == {c \in S \ seen : \E d \in frontier : Adjacent(c, d)}
    IN  IF new = {} THEN seen ELSE Reach(new, seen \cup new, S)

\* the cells of S connected to seed through shared edges
Component(seed, S) == Reach({seed}, {seed}, S)

MinCell(S) ==
    CHOOSE c \in S : \A d \in S : c[1] < d[1] \/ (c[1] = d[1] /\ c[2] <= d[2])

\* the cells a component surrounds: not in it, and cut off from the outside
Holes(comp) ==
    LET lats == {c[1] : c \in comp}
        lons == {c[2] : c \in comp}
        box  == (SetMin(lats) - 1 .. SetMax(lats) + 1) \X (SetMin(lons) - 1 .. SetMax(lons) + 1)
        free == box \ comp
    IN  free \ Component(<<SetMin(lats) - 1, SetMin(lons) - 1>>, free)

\* one maximal part of a union whose interior is connected, as a Polygon
PolygonOf(comp) ==
    [geom_type |-> "Polygon",
     exterior  |-> comp \cup Holes(comp),
     interiors |-> Holes(comp)]

\* the parts of a union, in a fixed order (the order of merged.geoms is
\* GEOS's; nothing the script does depends on it)
RECURSIVE Geoms(_)
Geoms(cells) ==
    IF cells = {} THEN <<>>
    ELSE LET comp == Component(MinCell(cells), cells)
         IN  <<PolygonOf(comp)>> \o Geoms(cells \ comp)

UnionCells(polygons) == UNION {Region(polygons[i]) : i \in DOMAIN polygons}

\* the union of polygons that enclose area: a Polygon or a MultiPolygon
PolygonalUnion(polygons) ==
    LET g == Geoms(UnionCells(polygons))
    IN  IF Len(g) = 1 THEN g[1] ELSE [geom_type |-> "MultiPolygon", geoms |-> g]

\* what GEOS may hand back when nothing in the input encloses area
EmptyGeoms ==
    {[geom_type |-> "GeometryCollection", geoms |-> <<>>],
     [geom_type |-> "Polygon", exterior |-> {}, interiors |-> {}]}

\* unary_union(polygons): the outcomes of the call.  On valid input there is
\* one.  On input with a zero-area ring GEOS may raise, or drop the ring.
unary_union(polygons) ==
    IF \A i \in DOMAIN polygons : ~IsDegenerate(polygons[i])
    THEN {[raised |-> FALSE, geom |-> PolygonalUnion(polygons)]}
    ELSE {[raised |-> TRUE, geom |-> [geom_type |-> "None"]]}
         \cup (IF UnionCells(polygons) = {}
               THEN {[raised |-> FALSE, geom |-> g] : g \in EmptyGeoms}
               ELSE {[raised |-> FALSE, geom |-> PolygonalUnion(polygons)]})

----------------------------------------------------------------------------
\* The program's functions.

create_square_polygon(lat, lon, radius_meters) ==
    LET lat_offset == (radius_meters * UnitsPerDegree) \div MetersPerDegree
        lon_offset == (radius_meters * UnitsPerDegree) \div (MetersPerDegree * CosLat(lat))
        vertices == << <<FSub(lat, lat_offset), FSub(lon, lon_offset)>>,
                       <<FSub(lat, lat_offset), FAdd(lon, lon_offset)>>,
                       <<FAdd(lat, lat_offset), FAdd(lon, lon_offset)>>,
                       <<FAdd(lat, lat_offset), FSub(lon, lon_offset)>>,
                       <<FSub(lat, lat_offset), FSub(lon, lon_offset)>> >>
    IN  Polygon(vertices)

\* a handler that gives up instead of falling back to its input
ExceptReturnEmpty(polygons) == <<>>

\* the value of the except branch of merge_intersecting_polygons
ExceptReturn(polygons) == polygons

\* the value of the branch for a union that is no Polygon and no MultiPolygon
OtherReturn(merged) == <<>>

\* the body of the try block and its handler, given what unary_union did
MergeReturn(polygons, u) ==
    IF u.raised THEN [path |-> "except", result |-> ExceptReturn(polygons)]
    ELSE IF u.geom.geom_type = "MultiPolygon"
         THEN [path |-> "MultiPolygon", result |-> u.geom.geoms]
    ELSE IF u.geom.geom_type = "Polygon"
         THEN [path |-> "Polygon", result |-> <<u.geom>>]
    ELSE [path |-> "other", result |-> OtherReturn(u.geom)]

\* merge_intersecting_polygons(polygons): the return path taken and the list
\* returned, for each outcome of unary_union
merge_intersecting_polygons(polygons) ==
    IF polygons = <<>> THEN {[path |-> "empty", result |-> <<>>]}
    ELSE IF Len(polygons) = 1 THEN {[path |-> "single", result |-> polygons]}
    ELSE {MergeReturn(polygons, u) : u \in unary_union(polygons)}

\* str(x) inside an f-string
Str(x) == IF x = None THEN "None" ELSE x

\* name of a marker entity
PointName(pm) == "Original: " \o Str(pm.name)

\* an area name that uses the index of enumerate() as it is
AreaNameZeroBased(i) == "Área " \o ToString(i)

\* name of the area entity made at index i of enumerate(polygons)
AreaName(i) == "Área " \o ToString(i + 1)

\* the (lat, lon) -> (lon, lat) swap of the ring written to the KML
KmlCoords(coords) == {<<c[2], c[1]>> : c \in coords}

NewPoint(pm) ==
    [name |-> PointName(pm), coords |-> <<pm.lon, pm.lat>>]

NewPolygon(i, poly, color, opacity) ==
    [name |-> AreaName(i),
     style |-> [line |-> color, width |-> 2, fill |-> <<opacity, color>>],
     outerboundaryis |-> KmlCoords(poly.exterior)]

\* the second loop of create_output_kml, from index i (0-based) on
RECURSIVE AreaEntities(_, _, _, _)
AreaEntities(polygons, i, color, opacity) ==
    IF i >= Len(polygons) THEN <<>>
    ELSE (IF polygons[i + 1].geom_type = "Polygon"
          THEN <<NewPolygon(i, polygons[i + 1], color, opacity)>>
          ELSE <<>>)
         \o AreaEntities(polygons, i + 1, color, opacity)

create_output_kml(polygons, placemarks, radius, color, opacity) ==
    [points   |-> [i \in DOMAIN placemarks |-> NewPoint(placemarks[i])],
     polygons |-> AreaEntities(polygons, 0, color, opacity)]

----------------------------------------------------------------------------
\* parse_kml.  A document is well formed or not; a well-formed one holds a
\* sequence of Placemark elements.  find() gives Absent for a missing child;
\* the text of an empty element is None.  The text of a coordinates element
\* is kept as its comma-separated fields after strip().

Absent == "<absent>"

\* a field float() accepts, and one it rejects
Num(n) == [num |-> TRUE, val |-> n]

NotNum == [num |-> FALSE, val |-> 0]

\* the value of name when the placemark has no name element
DefaultName == "Sem nome"

\* the value of description when the placemark has no description element
DefaultDescription == ""

ElemName(e) == IF e.name = Absent THEN DefaultName ELSE e.name

ElemDescription(e) == IF e.description = Absent THEN DefaultDescription ELSE e.description

\* a dict that reads "lon,lat" as "lat,lon"
PlacemarkDictSwapped(e) ==
    [name        |-> IF e.name = Absent THEN "Sem nome" ELSE e.name,
     description |-> IF e.description = Absent THEN "" ELSE e.description,
     lat         |-> e.point.fields[1].val,
     lon         |-> e.point.fields[2].val,
     coords      |-> e.point.fields]

\* the dict appended for a placemark with usable coordinates
PlacemarkDict(e) ==
    [name        |-> ElemName(e),
     description |-> ElemDescription(e),
     lat         |-> e.point.fields[2].val,
     lon         |-> e.point.fields[1].val,
     coords      |-> e.point.fields]

\* the for loop of parse_kml from element i on: the list, or raised
RECURSIVE ParseLoop(_, _, _)
ParseLoop(elems, i, placemarks) ==
    IF i > Len(elems) THEN [raised |-> FALSE, placemarks |-> placemarks]
    ELSE LET e == elems[i] IN
         IF ~e.point.found THEN ParseLoop(elems, i + 1, placemarks)
         ELSE IF e.point.text_none
              THEN [raised |-> TRUE, placemarks |-> <<>>]     \* None.strip()
         ELSE IF Len(e.point.fields) >= 2
              THEN IF ~e.point.fields[1].num \/ ~e.point.fields[2].num
                   THEN [raised |-> TRUE, placemarks |-> <<>>]   \* float()
                   ELSE ParseLoop(elems, i + 1, Append(placemarks, PlacemarkDict(e)))
         ELSE ParseLoop(elems, i + 1, placemarks)

\* parse_kml(file_content): ok with the list of placemarks, or the
\* (None, None) of the except branch
parse_kml(file_content) ==
    IF ~file_content.well_formed THEN [ok |-> FALSE, placemarks |-> None]
    ELSE LET r == ParseLoop(file_content.elems, 1, <<>>)
         IN  IF r.raised THEN [ok |-> FALSE, placemarks |-> None]
             ELSE [ok |-> TRUE, placemarks |-> r.placemarks]

----------------------------------------------------------------------------
\* Inputs.

\* the default of the colour picker, and of the opacity slider in tenths
cor_poligono == "#FF0000"

opacidade == 3

\* the values of the radius slider that are whole grid units
SliderValues ==
    {r \in RaioMin .. RaioMax : r % RaioMin = 0 /\ r <= RaioMin * MaxRaioUnits}

\* a point whose latitude absorbs the offset: its square has no area
FarPoint == <<Big, 1>>

Positions == ((1 .. GridMax) \X (1 .. GridMax)) \cup {FarPoint}

PosLeq(a, b) == a[1] < b[1] \/ (a[1] = b[1] /\ a[2] <= b[2])

\* lists of at most n positions, each list once up to the order of its points
PointLists(n) ==
    {l \in UNION {[1 .. k -> Positions] : k \in 0 .. n} :
        \A i \in 1 .. Len(l) - 1 : PosLeq(l[i], l[i + 1])}

\* the dict parse_kml makes of a named placemark at a (lat, lon) position
PointAt(pos) ==
    [name |-> "A", description |-> DefaultDescription,
     lat |-> pos[1], lon |-> pos[2], coords |-> <<Num(pos[2]), Num(pos[1])>>]

Placemarks(l) == [i \in DOMAIN l |-> PointAt(l[i])]

\* lines 310-313: one square per placemark
IndividualPolygons(placemarks, radius) ==
    [i \in DOMAIN placemarks |->
        create_square_polygon(placemarks[i].lat, placemarks[i].lon, radius)]

NoRet == [error |-> "none"]

Idle ==
    /\ uploaded_file = [present |-> FALSE]
    /\ raio = RaioMin
    /\ session_state = <<>>
    /\ tmp_files = {}
    /\ run = 0
    /\ last = [clicked |-> FALSE]

----------------------------------------------------------------------------
\* The geometry functions applied in the order of lines 310-323.

InitGeom ==
    /\ Idle
    /\ pc = "buffer"
    /\ args \in {[placemarks |-> Placemarks(l), raio |-> r] :
                    l \in PointLists(MaxPoints), r \in SliderValues}
    /\ ret = NoRet

Buffer ==
    /\ pc = "buffer"
    /\ pc' = "merge"
    /\ ret' = [error |-> "none",
               individual_polygons |-> IndividualPolygons(args.placemarks, args.raio)]
    /\ UNCHANGED <<args, pipeline_vars>>

Merge ==
    /\ pc = "merge"
    /\ pc' = "write"
    /\ \E m \in merge_intersecting_polygons(ret.individual_polygons) :
          ret' = [error |-> "none",
                  individual_polygons |-> ret.individual_polygons,
                  path |-> m.path,
                  merged_polygons |-> m.result]
    /\ UNCHANGED <<args, pipeline_vars>>

WriteKml ==
    /\ pc = "write"
    /\ pc' = "done"
    /\ ret' = [error |-> "none",
               individual_polygons |-> ret.individual_polygons,
               path |-> ret.path,
               merged_polygons |-> ret.merged_polygons,
               output_kml |-> create_output_kml(ret.merged_polygons, args.placemarks,
                                                args.raio, cor_poligono, opacidade)]
    /\ UNCHANGED <<args, pipeline_vars>>

NextGeom == Buffer \/ Merge \/ WriteKml

SpecGeom == InitGeom /\ [][NextGeom]_vars

----------------------------------------------------------------------------
\* The script.  Streamlit runs it from top to bottom after every interaction;
\* st.session_state and the files on disk outlive a run, and an exception
\* that nothing catches ends the run where it is raised.

NoFile == [present |-> FALSE]

\* the uploaded document that holds one named Point placemark per position
DocOf(l) ==
    [present |-> TRUE, well_formed |-> TRUE,
     elems |-> [i \in DOMAIN l |->
                  [name |-> "A", description |-> Absent,
                   point |-> [found |-> TRUE, text_none |-> FALSE,
                              fields |-> <<Num(l[i][2]), Num(l[i][1])>>]]]]

MalformedDoc == [present |-> TRUE, well_formed |-> FALSE, elems |-> <<>>]

\* uploaded documents hold at most half the points the geometry is checked on
MaxUploadPoints == MaxPoints \div 2

UploadPositions == {<<1, 1>>, <<GridMax - 1, GridMax - 1>>, FarPoint}

Uploads ==
    {DocOf(l) : l \in {x \in PointLists(MaxUploadPoints) :
                          \A i \in DOMAIN x : x[i] \in UploadPositions}}
    \cup {MalformedDoc}

\* line 287 and the test of line 289: the placemarks, <<>> when there are none
ParsedPlacemarks(file) ==
    IF file.present /\ parse_kml(file).ok THEN parse_kml(file).placemarks ELSE <<>>

\* st.session_state[key] = value, stored by processing run n
Store(state, key, value, n) ==
    [k \in DOMAIN state \cup {key} |->
        IF k = key THEN [value |-> value, run |-> n] ELSE state[k]]

\* the steps of lines 326-338 that can raise
FailurePoints == {"none", "tempfile", "save", "read", "download"}

\* line 319
StoreMerged(state, merged_polygons, n) ==
    Store(state, "merged_polygons", merged_polygons, n)

\* line 344, reached when nothing before it raised
StorePlacemarks(state, placemarks, n, fail) ==
    IF fail = "none" THEN Store(state, "placemarks", placemarks, n) ELSE state

\* lines 326-341: the files on disk after the block; name is the file the
\* block creates unless NamedTemporaryFile itself raises
TmpFilesAfter(files, name, fail) ==
    IF fail = "tempfile" THEN files
    ELSE IF fail = "none" THEN (files \cup {name}) \ {name}     \* os.unlink
    ELSE files \cup {name}

\* lines 351-387: what the map section does with the session state
MapSection(state) ==
    IF "merged_polygons" \in DOMAIN state /\ state["merged_polygons"].value # <<>>
    THEN IF "placemarks" \in DOMAIN state THEN "shown" ELSE "KeyError"
    ELSE "skipped"

NoKml == [points |-> <<>>, polygons |-> <<>>]

\* a run in which the process button was not clicked
Rerun ==
    /\ session_state' = session_state
    /\ tmp_files' = tmp_files
    /\ run' = run
    /\ last' = [clicked |-> FALSE, fail |-> "none", path |-> "none", tmp |-> 0,
                output_kml |-> NoKml, map |-> MapSection(session_state)]

UploadFile ==
    /\ \E doc \in Uploads : doc # uploaded_file /\ uploaded_file' = doc
    /\ raio' = raio
    /\ Rerun
    /\ UNCHANGED harness_vars

RemoveFile ==
    /\ uploaded_file.present
    /\ uploaded_file' = NoFile
    /\ raio' = raio
    /\ Rerun
    /\ UNCHANGED harness_vars

MoveSlider ==
    /\ \E r \in SliderValues : r # raio /\ raio' = r
    /\ uploaded_file' = uploaded_file
    /\ Rerun
    /\ UNCHANGED harness_vars

\* the run after a click on the button of line 307
ClickProcess ==
    /\ run < MaxRuns
    /\ ParsedPlacemarks(uploaded_file) # <<>>
    /\ LET placemarks == ParsedPlacemarks(uploaded_file)
           individual_polygons == IndividualPolygons(placemarks, raio)
       IN  \E m \in merge_intersecting_polygons(individual_polygons), fail \in FailurePoints :
             LET state1 == StoreMerged(session_state, m.result, run + 1)
                 state2 == StorePlacemarks(state1, placemarks, run + 1, fail)
             IN  /\ session_state' = state2
                 /\ tmp_files' = TmpFilesAfter(tmp_files, run + 1, fail)
                 /\ run' = run + 1
                 /\ last' = [clicked |-> TRUE, fail |-> fail, path |-> m.path,
                             tmp |-> IF fail = "tempfile" THEN 0 ELSE run + 1,
                             output_kml |-> create_output_kml(m.result, placemarks, raio,
                                                             cor_poligono, opacidade),
                             map |-> IF fail = "none" THEN MapSection(state2)
                                     ELSE "skipped"]
    /\ UNCHANGED <<uploaded_file, raio, harness_vars>>

\* The slider starts at 120 m, beyond the radii of the grid; the session is
\* taken up with the slider at any of the radii the grid holds, each of which
\* MoveSlider reaches as well.
Init ==
    /\ uploaded_file = NoFile
    /\ raio \in SliderValues
    /\ session_state = <<>>
    /\ tmp_files = {}
    /\ run = 0
    /\ last = [clicked |-> FALSE, fail |-> "none", path |-> "none", tmp |-> 0,
               output_kml |-> NoKml, map |-> "skipped"]
    /\ pc = "off"
    /\ args = <<>>
    /\ ret = NoRet

Next == UploadFile \/ RemoveFile \/ MoveSlider \/ ClickProcess

Spec == Init /\ [][Next]_vars

----------------------------------------------------------------------------
\* parse_kml applied to every document of at most MaxPlacemarks elements.

NameChoices == {Absent, None, "A"}

DescriptionChoices == {Absent, "d"}

\* what find('.//kml:Point/kml:coordinates') and the text of the element can be:
\* no such element; an empty element; the texts "", "1", "1,2", "3,4,0",
\* "x,2", "1,x" and "1,2,x"
PointChoices ==
    {[found |-> FALSE, text_none |-> FALSE, fields |-> <<>>],
     [found |-> TRUE, text_none |-> TRUE, fields |-> <<>>]}
    \cup {[found |-> TRUE, text_none |-> FALSE, fields |-> f] :
            f \in {<<NotNum>>, <<Num(1)>>, <<Num(1), Num(2)>>, <<Num(3), Num(4), Num(0)>>,
                   <<NotNum, Num(2)>>, <<Num(1), NotNum>>, <<Num(1), Num(2), NotNum>>}}

Elements == [name : NameChoices, description : DescriptionChoices, point : PointChoices]

Documents ==
    {[present |-> TRUE, well_formed |-> TRUE, elems |-> e] :
        e \in UNION {[1 .. n -> Elements] : n \in 0 .. MaxPlacemarks}}
    \cup {MalformedDoc}

InitParse ==
    /\ Idle
    /\ pc = "parse"
    /\ args \in {[file_content |-> d] : d \in Documents}
    /\ ret = NoRet

Parse ==
    /\ pc = "parse"
    /\ pc' = "parsed"
    /\ ret' = parse_kml(args.file_content)
    /\ UNCHANGED <<args, pipeline_vars>>

SpecParse == InitParse /\ [][Parse]_vars

----------------------------------------------------------------------------
\* Lines 310-313 applied to every radius, the ones the slider cannot give too.

RadiusInputs == {0 - RaioMin, 0} \cup SliderValues

InitBuffer ==
    /\ Idle
    /\ pc = "buffer"
    /\ args \in {[placemarks |-> Placemarks(l), raio |-> r] :
                    l \in PointLists(MaxUploadPoints), r \in RadiusInputs}
    /\ ret = NoRet

SpecBuffer == InitBuffer /\ [][Buffer]_vars

----------------------------------------------------------------------------
\* Properties of merge_intersecting_polygons and create_output_kml (SpecGeom).

AllValid(polygons) == \A i \in DOMAIN polygons : ~IsDegenerate(polygons[i])

\* two closed regions share a point: an overlap, a common edge or a common corner
Intersects(p, q) ==
    \E c \in Region(p), d \in Region(q) :
        /\ c[1] - d[1] \in -1 .. 1
        /\ c[2] - d[2] \in -1 .. 1

RECURSIVE LinkReach(_, _, _)
LinkReach(frontier, seen, polygons) ==
    LET new == {j \in DOMAIN polygons \ seen :
                   \E i \in frontier : Intersects(polygons[i], polygons[j])}
    IN  IF new = {} THEN seen ELSE LinkReach(new, seen \cup new, polygons)

\* the inputs linked to input i by a chain of pairwise intersections
Linked(polygons, i) == LinkReach({i}, {i}, polygons)

\* inputs i and j lie inside one and the same output polygon
SameOutput(polygons, merged, i, j) ==
    \E k \in DOMAIN merged :
        /\ Region(polygons[i]) \subseteq Region(merged[k])
        /\ Region(polygons[j]) \subseteq Region(merged[k])

\* C1: for two or more buffered squares, two squares are inside the same output
\* polygon if and only if a chain of pairwise intersections links them, where
\* a shared edge or a single shared corner counts as an intersection.
C1_SameOutputIffLinked ==
    (/\ pc = "write"
     /\ Len(ret.individual_polygons) >= 2
     /\ AllValid(ret.individual_polygons))
    => \A i, j \in DOMAIN ret.individual_polygons :
          SameOutput(ret.individual_polygons, ret.merged_polygons, i, j)
          <=> j \in Linked(ret.individual_polygons, i)

\* C2: for every non-empty input the returned list has at least one and at most
\* len(P) polygons, on every return path.
C2_CountBounds ==
    (pc = "write" /\ Len(ret.individual_polygons) >= 1)
    => /\ Len(ret.merged_polygons) >= 1
       /\ Len(ret.merged_polygons) <= Len(ret.individual_polygons)

\* the (lat, lon) cells enclosed by the rings of the area entities of a document
EmittedRegion(kml) ==
    UNION {{<<c[2], c[1]>> : c \in kml.polygons[k].outerboundaryis} :
              k \in DOMAIN kml.polygons}

\* C10: the region enclosed by the rings written for the merged polygons is
\* exactly the union of the buffered squares, and every merged polygon is one
\* ring without holes.
C10_EmittedIsUnion ==
    (pc = "done" /\ AllValid(ret.individual_polygons))
    => /\ EmittedRegion(ret.output_kml) = UnionCells(ret.individual_polygons)
       /\ \A k \in DOMAIN ret.merged_polygons : ret.merged_polygons[k].interiors = {}

----------------------------------------------------------------------------
\* Properties of the radius check (SpecBuffer).

\* C3: with a radius of zero or less the run ends in InvalidRadius and no
\* square is made.
C3_InvalidRadius ==
    (pc = "merge" /\ args.raio <= 0 /\ args.placemarks # <<>>)
    => /\ ret.error = "InvalidRadius"
       /\ ret.individual_polygons = <<>>

----------------------------------------------------------------------------
\* Properties of parse_kml (SpecParse).

HasPoint(e) == e.point.found

\* the coordinates can be read: a text of two or more fields, the first two numbers
Usable(e) ==
    /\ e.point.found
    /\ ~e.point.text_none
    /\ Len(e.point.fields) >= 2
    /\ e.point.fields[1].num
    /\ e.point.fields[2].num

\* the coordinates text has two or more comma-separated fields
HasFields(e) == e.point.found /\ ~e.point.text_none /\ Len(e.point.fields) >= 2

\* the coordinates make the code raise: no text at all, or a first or second
\* field that is no number
Unparsable(e) ==
    /\ e.point.found
    /\ \/ e.point.text_none
       \/ /\ Len(e.point.fields) >= 2
          /\ ~e.point.fields[1].num \/ ~e.point.fields[2].num

\* the returned list is the chosen elements, in document order
Returns(placemarks, chosen) ==
    /\ Len(placemarks) = Len(chosen)
    /\ \A k \in DOMAIN chosen :
          /\ placemarks[k].coords = chosen[k].point.fields
          /\ placemarks[k].lon = chosen[k].point.fields[1].val
          /\ placemarks[k].lat = chosen[k].point.fields[2].val

\* C4: a placemark with missing or unusable coordinates is skipped without an
\* error and the other placemarks of a well-formed document are returned;
\* parse_kml fails only on a document that is not well formed.
C4_SkipsUnusable ==
    pc = "parsed"
    => /\ ret.ok <=> args.file_content.well_formed
       /\ ret.ok => Returns(ret.placemarks, SelectSeq(args.file_content.elems, Usable))

----------------------------------------------------------------------------
\* Properties of the script (Spec).

\* the squares of the run that has just processed the uploaded document
LastIndividual == IndividualPolygons(ParsedPlacemarks(uploaded_file), raio)

\* C6 as stated: one marker entity per original point, one area entity per
\* merged polygon, the k-th of them named "Area k".
C6_EntitiesAreaK ==
    last.clicked
    => /\ Len(last.output_kml.points) = Len(ParsedPlacemarks(uploaded_file))
       /\ Len(last.output_kml.polygons) = Len(session_state["merged_polygons"].value)
       /\ \A k \in DOMAIN last.output_kml.polygons :
             last.output_kml.polygons[k].name = "Area " \o ToString(k)

\* C6 as amended: one marker entity per original point, one area entity per
\* merged polygon, the k-th of them named "Área k" (with the accented Á).
C6_EntitiesAreaAccented ==
    last.clicked
    => /\ Len(last.output_kml.points) = Len(ParsedPlacemarks(uploaded_file))
       /\ Len(last.output_kml.polygons) = Len(session_state["merged_polygons"].value)
       /\ \A k \in DOMAIN last.output_kml.polygons :
             last.output_kml.polygons[k].name = "Área " \o ToString(k)

\* two overlapping squares were merged into one polygon and written
C6_Witness ==
    /\ last.clicked
    /\ last.path = "Polygon"
    /\ Len(ParsedPlacemarks(uploaded_file)) = 2
    /\ Len(last.output_kml.points) = 2
    /\ Len(last.output_kml.polygons) = 1

\* C7: the temporary file a run creates no longer exists when the run ends,
\* whether saving, reading back and offering the download succeed or fail.
C7_TmpFileDeleted ==
    last.tmp # 0 => last.tmp \notin tmp_files

\* C8: when the union raises on two or more polygons, the merge returns its
\* input list unchanged and the run goes on to write the output document
\* from that list.
C8_FallbackToInput ==
    (last.clicked /\ last.path = "except")
    => /\ Len(LastIndividual) >= 2
       /\ session_state["merged_polygons"].value = LastIndividual
       /\ Len(last.output_kml.polygons) = Len(LastIndividual)
       /\ \A k \in DOMAIN LastIndividual :
             last.output_kml.polygons[k].outerboundaryis
                = KmlCoords(LastIndividual[k].exterior)

\* the union raised on a list that holds a square with area
C8_Witness ==
    /\ last.clicked
    /\ last.path = "except"
    /\ Len(LastIndividual) = 2
    /\ \E i \in DOMAIN LastIndividual : ~IsDegenerate(LastIndividual[i])
    /\ Len(last.output_kml.polygons) = 2

\* C9: whenever the session state holds a non-empty 'merged_polygons' it holds
\* 'placemarks' too, both stored by the same processing run, and the map
\* section never reads a missing key.
C9_SessionStatePaired ==
    /\ ("merged_polygons" \in DOMAIN session_state
          /\ session_state["merged_polygons"].value # <<>>)
       => /\ "placemarks" \in DOMAIN session_state
          /\ session_state["placemarks"].run = session_state["merged_polygons"].run
    /\ last.map # "KeyError"

====
